---------------------------- MODULE Spec2Model ----------------------------
(***************************************************************************)
(* A model of app.py: the password gate, the chat handler with its         *)
(* "Please add" flow, the file upload flow and the text chunker.           *)
(*                                                                         *)
(* Strings are sequences of one-character strings, so that strip, lower,   *)
(* startswith, slicing and concatenation are computed as Python computes   *)
(* them.  The hosted services (embedding, vector index, chat completion)   *)
(* are the environment: each call either returns or raises, chosen         *)
(* nondeterministically.                                                   *)
(***************************************************************************)
EXTENDS Integers, Sequences, FiniteSets, TLC

VARIABLES
    \* st.session_state and the hosted vector index
    authenticated, input_password, chat_history, chat_input, index,
    \* what the latest script run rendered and did
    page, ui, op, calls, raised, runs, prev,
    \* chunk_text's locals, for the step-by-step run of its loop
    full_text, chunk_size, start, chunks, windows, pc

vars == <<authenticated, input_password, chat_history, chat_input, index,
          page, ui, op, calls, raised, runs, prev,
          full_text, chunk_size, start, chunks, windows, pc>>

appVars == <<authenticated, input_password, chat_history, chat_input, index,
             page, ui, op, calls, raised, runs, prev>>

chunkVars == <<full_text, chunk_size, start, chunks, windows, pc>>

-----------------------------------------------------------------------------
(* Bounds of the model *)

\* handler runs (chat submissions and file processings) in one session
MaxRuns == 2
\* length of the texts given to chunk_text in SpecChunk
MaxTextLen == 4
\* chunk sizes given to chunk_text in SpecChunk
MaxChunkSize == 3
\* chunks per call of embed_and_upsert in SpecUpsert
MaxChunks == 2

(* Program constants *)

\* chunk_text(full_text, chunk_size=1500)
DefaultChunkSize == 1500
\* query_pinecone(user_text, top_k=3)
TopK == 3
\* user_text[10:]
PrefixLen == 10

-----------------------------------------------------------------------------
(* Python's str operations on sequences of characters *)

Whitespace == {" ", "\n", "\t"}

Min(a, b) == IF a < b THEN a ELSE b

RECURSIVE FirstKept(_, _)
\* the first position from i on that holds no whitespace (Len(s) + 1: none)
FirstKept(s, i) ==
    IF i > Len(s) THEN i
    ELSE IF s[i] \notin Whitespace THEN i
    ELSE FirstKept(s, i + 1)

RECURSIVE LastKept(_, _)
\* the last position up to i that holds no whitespace (0: none)
LastKept(s, i) ==
    IF i < 1 THEN i
    ELSE IF s[i] \notin Whitespace THEN i
    ELSE LastKept(s, i - 1)

\* str.strip(): the text between the first and the last non-whitespace character
strip(s) == SubSeq(s, FirstKept(s, 1), LastKept(s, Len(s)))

\* s[a:b] for 0 <= a, with Python's clamping of b to len(s)
Slice(s, a, b) == SubSeq(s, a + 1, Min(b, Len(s)))

LowerChar(c) ==
    CASE c = "A" -> "a" [] c = "D" -> "d" [] c = "E" -> "e" [] c = "F" -> "f"
      [] c = "L" -> "l" [] c = "N" -> "n" [] c = "P" -> "p" [] c = "S" -> "s"
      [] c = "T" -> "t" [] c = "X" -> "x"
      [] OTHER -> c

\* str.lower()
lower(s) == [i \in 1..Len(s) |-> LowerChar(s[i])]

\* str.startswith(prefix)
startswith(s, prefix) ==
    Len(s) >= Len(prefix) /\ SubSeq(s, 1, Len(prefix)) = prefix

RECURSIVE join(_, _)
\* sep.join(texts)
join(sep, texts) ==
    IF texts = <<>> THEN <<>>
    ELSE IF Len(texts) = 1 THEN texts[1]
    ELSE texts[1] \o sep \o join(sep, Tail(texts))

RECURSIVE SplitLast(_, _)
\* s.split(sep)[-1]: the text after the last separator
SplitLast(s, sep) ==
    IF s = <<>> THEN <<>>
    ELSE IF s[Len(s)] = sep THEN <<>>
    ELSE SplitLast(SubSeq(s, 1, Len(s) - 1), sep) \o <<s[Len(s)]>>

-----------------------------------------------------------------------------
(* chunk_text *)

\* while start < len(full_text)
ChunkLoopCond(text, st) == st.start < Len(text)

\* a chunker that steps back over the end of the previous window
NextStartOverlapping(end) == IF end > 200 THEN end - 200 ELSE end

\* start = end
NextStart(end) == end

\* a chunker that appends the window as it is
ChunkOfUntrimmed(text, a, b) == Slice(text, a, b)

\* chunk = full_text[start:end]; chunk.strip()
ChunkOf(text, a, b) == strip(Slice(text, a, b))

\* one iteration of the loop on its locals; windows records the [start, end)
\* of each iteration
ChunkBody(text, size, st) ==
    LET end == st.start + size
    IN  [start   |-> NextStart(end),
         chunks  |-> Append(st.chunks, ChunkOf(text, st.start, end)),
         windows |-> Append(st.windows, <<st.start, end>>)]

ChunkLocals == [start |-> 0, chunks |-> <<>>, windows |-> <<>>]

RECURSIVE chunk_loop(_, _, _)
chunk_loop(text, size, st) ==
    IF ChunkLoopCond(text, st) THEN chunk_loop(text, size, ChunkBody(text, size, st))
    ELSE st

chunk_text(text, size) == chunk_loop(text, size, ChunkLocals).chunks

-----------------------------------------------------------------------------
(* The step-by-step run of chunk_text, on inputs drawn from bounded sets *)

RECURSIVE TextsOfLen(_)
TextsOfLen(n) ==
    IF n = 0 THEN {<<>>}
    ELSE {Append(t, c) : t \in TextsOfLen(n - 1), c \in {"a", " "}}

ShortTexts == UNION {TextsOfLen(n) : n \in 0..MaxTextLen}

\* long texts for the default window: 3,200 characters with blanks at the
\* edges of the windows, 3,000 characters, and one whose second window is
\* blank
LongTexts ==
    { [i \in 1..3200 |-> IF i \in {1500, 1501, 3200} THEN " " ELSE "a"],
      [i \in 1..3000 |-> "a"],
      [i \in 1..1502 |-> IF i > 1500 THEN " " ELSE "a"] }

ChunkInputs ==
    {<<t, s>> : t \in ShortTexts, s \in 1..MaxChunkSize}
        \cup {<<t, DefaultChunkSize>> : t \in LongTexts}

\* while start < len(full_text): the loop body
ChunkIterate ==
    /\ pc = "loop"
    /\ ChunkLoopCond(full_text, [start |-> start])
    /\ LET st == ChunkBody(full_text, chunk_size,
                           [start |-> start, chunks |-> chunks, windows |-> windows])
       IN  /\ start' = st.start
           /\ chunks' = st.chunks
           /\ windows' = st.windows
    /\ UNCHANGED <<full_text, chunk_size, pc>>

\* return chunks
ChunkReturn ==
    /\ pc = "loop"
    /\ ~ChunkLoopCond(full_text, [start |-> start])
    /\ pc' = "done"
    /\ UNCHANGED <<full_text, chunk_size, start, chunks, windows>>

-----------------------------------------------------------------------------
(* Session and password *)

\* st.secrets["app_password"]
app_password == <<"p", "w">>

\* what the user may type into the password box
Passwords == {<<>>, <<" ", "p", "w", "\n">>, <<"p", "x">>}

\* pwd == st.secrets["app_password"]
PasswordMatches(pwd) == pwd = app_password

\* one run of password_gate; submit is st.button("Submit").  Both branches of
\* a pressed button end in st.stop(), so nothing but the gate is rendered.
password_gate(auth, pwd_input, submit) ==
    IF submit
    THEN IF PasswordMatches(strip(pwd_input))
         THEN [authenticated |-> TRUE, page |-> "gate", ui |-> "none"]
         ELSE [authenticated |-> auth, page |-> "gate", ui |-> "incorrect_password"]
    ELSE [authenticated |-> auth, page |-> "gate", ui |-> "none"]

\* an entry point that shows the main page to everyone
ShowsMainAppAlways(auth) == TRUE

\* if not st.session_state.authenticated: ... else: main_app()
ShowsMainApp(auth) == auth

\* one run of the script: the gate, or the main page
run_app(auth, pwd_input, submit) ==
    IF ~ShowsMainApp(auth) THEN password_gate(auth, pwd_input, submit)
    ELSE [authenticated |-> auth, page |-> "main", ui |-> "none"]

-----------------------------------------------------------------------------
(* The hosted services *)

\* a call to a hosted service, as the run's log keeps it
Call(svc, arg, ok) == [svc |-> svc, arg |-> arg, ok |-> ok]

\* resp["data"][0]["embedding"]: opaque, determined by the input
Embedding(text) == <<"embedding", text>>

\* index.upsert([vector]): upsert by id
Upsert(idx, vector) ==
    IF \E i \in 1..Len(idx) : idx[i].id = vector.id
    THEN [i \in 1..Len(idx) |-> IF idx[i].id = vector.id THEN vector ELSE idx[i]]
    ELSE Append(idx, vector)

\* an id that is the same for every vector
uuid4Fixed(idx) == 1

\* str(uuid.uuid4()): an id no stored vector has
uuid4(idx) == Len(idx) + 1

RECURSIVE Orderings(_)
\* the orderings of a set of vectors
Orderings(S) ==
    IF S = {} THEN {<<>>}
    ELSE UNION {{<<v>> \o rest : rest \in Orderings(S \ {v})} : v \in S}

\* the similarity rankings the index may compute for a query
Rankings(idx) == Orderings({idx[i] : i \in 1..Len(idx)})

\* index.query(vector, top_k): the top_k nearest vectors of the ranking
QueryMatches(ranking, top_k) == SubSeq(ranking, 1, Min(top_k, Len(ranking)))

\* match.metadata.get("original_text", "")
MetadataGet(metadata, key, default) ==
    IF key \in DOMAIN metadata THEN metadata[key] ELSE default

-----------------------------------------------------------------------------
(* embed_and_upsert.  fail_at is the number of the hosted call of the run   *)
(* that raises (0: none does).                                              *)

RECURSIVE upsert_loop(_, _, _, _, _)
\* for chunk in chunks: st is [index, calls, raised]
upsert_loop(st, chunk_list, k, metadata_prefix, fail_at) ==
    IF k > Len(chunk_list) THEN st
    ELSE
        LET chunk == chunk_list[k]
            embed_ok == fail_at # Len(st.calls) + 1
            upsert_ok == fail_at # Len(st.calls) + 2
            vector == [id |-> uuid4(st.index),
                       values |-> Embedding(chunk),
                       metadata |-> [original_text |-> chunk,
                                     doc_id |-> metadata_prefix]]
            embedCall == Call("embed", chunk, embed_ok)
            upsertCall == Call("upsert", vector, upsert_ok)
        IN  IF ~embed_ok
            THEN [st EXCEPT !.calls = Append(@, embedCall), !.raised = TRUE]
            ELSE IF ~upsert_ok
            THEN [st EXCEPT !.calls = @ \o <<embedCall, upsertCall>>, !.raised = TRUE]
            ELSE upsert_loop([index |-> Upsert(st.index, vector),
                              calls |-> st.calls \o <<embedCall, upsertCall>>,
                              raised |-> FALSE],
                             chunk_list, k + 1, metadata_prefix, fail_at)

embed_and_upsert(idx, chunk_list, metadata_prefix, fail_at) ==
    upsert_loop([index |-> idx, calls |-> <<>>, raised |-> FALSE],
                chunk_list, 1, metadata_prefix, fail_at)

manual_add == <<"m", "a", "n", "u", "a", "l", "_", "a", "d", "d">>

\* embed_and_upsert([text], metadata_prefix="manual_add")
add_text_to_pinecone(idx, text, fail_at) ==
    embed_and_upsert(idx, <<text>>, manual_add, fail_at)

-----------------------------------------------------------------------------
(* parse_file.  An uploaded file is [name, bytes, pages]: bytes is what     *)
(* read() returns, pages the text extract_text() gives for each PDF page.   *)

\* a byte that is not valid UTF-8
BadByte == "\\xff"

\* raw_bytes.decode("utf-8", errors="ignore")
Decode(raw) == SelectSeq(raw, LAMBDA b : b # BadByte)

RECURSIVE PdfText(_)
\* for page in reader.pages: full_text += page.extract_text() + "\n"
PdfText(pages) ==
    IF pages = <<>> THEN <<>>
    ELSE Head(pages) \o <<"\n">> \o PdfText(Tail(pages))

\* uploaded_file.name.lower().split('.')[-1]
Extension(name) == SplitLast(lower(name), ".")

parse_file(uploaded_file) ==
    LET ext == Extension(uploaded_file.name)
    IN  IF ext = <<"p", "d", "f">>
        THEN chunk_text(PdfText(uploaded_file.pages), DefaultChunkSize)
        ELSE IF ext = <<"t", "x", "t">>
        THEN chunk_text(Decode(uploaded_file.bytes), DefaultChunkSize)
        ELSE <<>>

\* the "Process file" branch of main_app
process_file(idx, uploaded_file, doc_name, fail_at) ==
    LET chunk_list == parse_file(uploaded_file)
    IN  IF chunk_list = <<>>
        THEN [index |-> idx, calls |-> <<>>, raised |-> FALSE, ui |-> "parse_error"]
        ELSE
            LET r == embed_and_upsert(idx, chunk_list,
                                      IF doc_name # <<>> THEN doc_name
                                      ELSE uploaded_file.name,
                                      fail_at)
            IN  [index |-> r.index, calls |-> r.calls, raised |-> r.raised,
                 ui |-> IF r.raised THEN "none" ELSE "upload_success"]

-----------------------------------------------------------------------------
(* Chat logic *)

please_add == <<"p", "l", "e", "a", "s", "e", " ", "a", "d", "d">>

AddedPrefix ==
    <<"A", "d", "d", "e", "d", " ", "t", "o", " ", "k", "n", "o", "w", "l", "e",
      "d", "g", "e", " ", "b", "a", "s", "e", ":", " ">>

OpenAIErrorPrefix ==
    <<"O", "p", "e", "n", "A", "I", " ", "e", "r", "r", "o", "r", ":", " ">>

SystemPromptHead ==
    <<"Y", "o", "u", " ", "a", "r", "e", " ", "a", " ", "h", "e", "l", "p", "f",
      "u", "l", " ", "I", "T", " ", "a", "s", "s", "i", "s", "t", "a", "n", "t",
      ".", "\n", "R", "e", "l", "e", "v", "a", "n", "t", " ", "k", "n", "o", "w",
      "l", "e", "d", "g", "e", ":", "\n">>

SystemPromptTail ==
    <<"\n", "\n", "U", "s", "e", " ", "i", "t", " ", "i", "f", " ", "r", "e", "l",
      "e", "v", "a", "n", "t", " ", "w", "h", "e", "n", " ", "a", "n", "s", "w",
      "e", "r", "i", "n", "g", ".">>

Turn(role, content) == [role |-> role, content |-> content]

\* query_pinecone(query, top_k): [texts, calls, raised]
query_pinecone(query, top_k, fail_at, ranking) ==
    LET embed_ok == fail_at # 1
        query_ok == fail_at # 2
        embedCall == Call("embed", query, embed_ok)
        queryCall == Call("query",
                          [vector |-> Embedding(query), top_k |-> top_k,
                           include_metadata |-> TRUE],
                          query_ok)
        matches == QueryMatches(ranking, top_k)
    IN  IF ~embed_ok
        THEN [texts |-> <<>>, calls |-> <<embedCall>>, raised |-> TRUE]
        ELSE IF ~query_ok
        THEN [texts |-> <<>>, calls |-> <<embedCall, queryCall>>, raised |-> TRUE]
        ELSE [texts |-> [i \in 1..Len(matches) |->
                            MetadataGet(matches[i].metadata, "original_text", <<>>)],
              calls |-> <<embedCall, queryCall>>,
              raised |-> FALSE]

\* a handler that takes whitespace for a message
IsEmptyNever(user_text) == FALSE

\* if not user_text
IsEmpty(user_text) == user_text = <<>>

\* a handler that stores only what follows "please add" and a space
IsAddRequestStrict(user_text) ==
    startswith(lower(user_text), please_add \o <<" ">>)

\* user_text.lower().startswith("please add")
IsAddRequest(user_text) == startswith(lower(user_text), please_add)

\* a retrieval that asks for one match
QueryTopKOne == TopK - 2

\* query_pinecone(user_text, top_k=3)
QueryTopK == TopK

\* the handler's result: [chat_history, index, chat_input, calls, raised].
\* typed is st.session_state["chat_input"] as the widget set it; env is
\* [fail_at, ranking, answer, err], what the hosted services do in this run.
handle_user_input(history, idx, typed, env) ==
    LET user_text == strip(typed)
        asked == Append(history, Turn("user", user_text))
    IN  IF IsEmpty(user_text)
        THEN [chat_history |-> history, index |-> idx, chat_input |-> typed,
              calls |-> <<>>, raised |-> FALSE]
        ELSE IF IsAddRequest(user_text)
        THEN
            LET new_data == strip(Slice(user_text, PrefixLen, Len(user_text)))
                r == add_text_to_pinecone(idx, new_data, env.fail_at)
            IN  IF r.raised
                THEN [chat_history |-> asked, index |-> r.index,
                      chat_input |-> typed, calls |-> r.calls, raised |-> TRUE]
                ELSE [chat_history |->
                          Append(asked, Turn("assistant", AddedPrefix \o new_data)),
                      index |-> r.index, chat_input |-> <<>>,
                      calls |-> r.calls, raised |-> FALSE]
        ELSE
            LET q == query_pinecone(user_text, QueryTopK, env.fail_at, env.ranking)
                context == join(<<"\n">>, q.texts)
                system_prompt == SystemPromptHead \o context \o SystemPromptTail
                conversation == <<Turn("system", system_prompt)>> \o asked
                chat_ok == env.fail_at # 3
                chatCall == Call("chat", conversation, chat_ok)
            IN  IF q.raised
                THEN [chat_history |-> asked, index |-> idx,
                      chat_input |-> typed, calls |-> q.calls, raised |-> TRUE]
                ELSE [chat_history |->
                          Append(asked,
                                 Turn("assistant",
                                      IF chat_ok THEN strip(env.answer)
                                      ELSE OpenAIErrorPrefix \o env.err)),
                      index |-> idx, chat_input |-> <<>>,
                      calls |-> Append(q.calls, chatCall), raised |-> FALSE]

-----------------------------------------------------------------------------
(* What the user and the hosted services may do *)

ChatInputs ==
    { <<>>,
      <<" ", "\n">>,
      <<" ", "h", "i", " ">>,
      <<"P", "l", "e", "a", "s", "e", " ", "a", "d", "d", " ", " ", "v", "p", "n", " ">>,
      <<" ", "p", "l", "e", "a", "s", "e", " ", "a", "d", "d", " ">>,
      <<"P", "l", "e", "a", "s", "e", " ", "a", "d", "d", "r", "e", "s", "s">> }

\* response.choices[0].message.content
Answers == {<<" ", "o", "k", "\n">>}

\* str(e) of the exception a hosted call raises
Errors == {<<"t", "i", "m", "e", "o", "u", "t">>}

File(name, bytes, pages) == [name |-> name, bytes |-> bytes, pages |-> pages]

Upload(uploaded_file, doc_name) == [file |-> uploaded_file, doc_name |-> doc_name]

\* the files the user may process, each with the doc name typed for it: an
\* empty and a blank .txt, a text file named "txt" with a bad byte, a PDF of
\* one page and one of none, a .doc, and a .txt of two windows
Uploads ==
    { Upload(File(<<"a", ".", "t", "x", "t">>, <<>>, <<>>), <<>>),
      Upload(File(<<"a", ".", "t", "x", "t">>, <<" ", "\n">>, <<>>), <<>>),
      Upload(File(<<"t", "x", "t">>, <<"h", BadByte, "i", " ">>, <<>>), <<"k", "b">>),
      Upload(File(<<"N", ".", "P", "D", "F">>, <<>>, << <<"a", "b">> >>), <<>>),
      Upload(File(<<"N", ".", "P", "D", "F">>, <<>>, <<>>), <<"k", "b">>),
      Upload(File(<<"x", ".", "d", "o", "c">>, <<"h", "i">>, <<>>), <<>>),
      Upload(File(<<"a", ".", "t", "x", "t">>,
                  [i \in 1..1501 |-> IF i <= 1500 THEN "a" ELSE "b"], <<>>),
             <<"k", "b">>) }

\* the hosted calls of a run of the handler that may raise (0: none does)
FailPoints(typed) ==
    IF IsEmpty(strip(typed)) THEN {0}
    ELSE IF IsAddRequest(strip(typed)) THEN 0..2
    ELSE 0..3

\* the hosted index outlives the session: what earlier sessions and other
\* writers left in it (the second vector carries no original_text)
StoredIndex ==
    << [id |-> 1, values |-> Embedding(<<"v">>),
        metadata |-> [original_text |-> <<"v">>, doc_id |-> manual_add]],
       [id |-> 2, values |-> Embedding(<<"w">>),
        metadata |-> [doc_id |-> <<"w">>]] >>

\* the rankings a run of the handler can meet: the index is queried only by
\* a message that is no "please add", and is answered only when the
\* embedding call and the query returned
RankingsFor(idx, typed, fail_at) ==
    IF fail_at \in {1, 2} \/ IsEmpty(strip(typed)) \/ IsAddRequest(strip(typed))
    THEN {<<>>}
    ELSE Rankings(idx)

Snapshot == [chat_history |-> chat_history, index |-> index]

-----------------------------------------------------------------------------
(* The session: every interaction reruns the script *)

\* init_session on the first run of the script, which renders the gate
Init ==
    /\ authenticated = FALSE
    /\ input_password = <<>>
    /\ chat_history = <<>>
    /\ chat_input = <<>>
    /\ index = StoredIndex
    /\ page = "gate"
    /\ ui = "none"
    /\ op = [name |-> "start", arg |-> <<>>, env |-> <<>>]
    /\ calls = <<>>
    /\ raised = FALSE
    /\ runs = 0
    /\ prev = [chat_history |-> <<>>, index |-> StoredIndex]
    /\ full_text = <<>>
    /\ chunk_size = DefaultChunkSize
    /\ start = 0
    /\ chunks = <<>>
    /\ windows = <<>>
    /\ pc = "idle"

\* the user edits the password box: the script reruns, Submit not pressed
EditPassword ==
    /\ page = "gate"
    /\ \E pwd \in Passwords :
        LET s == run_app(authenticated, pwd, FALSE)
        IN  /\ input_password' = pwd
            /\ authenticated' = s.authenticated
            /\ page' = s.page
            /\ ui' = s.ui
            /\ op' = [name |-> "edit", arg |-> pwd, env |-> <<>>]
    /\ calls' = <<>>
    /\ raised' = FALSE
    /\ prev' = Snapshot
    /\ UNCHANGED <<chat_history, chat_input, index, runs>>
    /\ UNCHANGED chunkVars

\* the user presses Submit: the script reruns with the button pressed
PressSubmit ==
    /\ page = "gate"
    /\ LET s == run_app(authenticated, input_password, TRUE)
       IN  /\ authenticated' = s.authenticated
           /\ page' = s.page
           /\ ui' = s.ui
    /\ op' = [name |-> "submit", arg |-> input_password, env |-> <<>>]
    /\ calls' = <<>>
    /\ raised' = FALSE
    /\ prev' = Snapshot
    /\ UNCHANGED <<input_password, chat_history, chat_input, index, runs>>
    /\ UNCHANGED chunkVars

\* the user commits the chat box: handle_user_input runs as its on_change
\* callback, then the script reruns
ChatSubmit ==
    /\ page = "main"
    /\ runs < MaxRuns
    /\ \E typed \in ChatInputs, answer \in Answers, err \in Errors :
      \E fail_at \in FailPoints(typed) :
      \E ranking \in RankingsFor(index, typed, fail_at) :
        LET env == [fail_at |-> fail_at, ranking |-> ranking,
                    answer |-> answer, err |-> err]
            r == handle_user_input(chat_history, index, typed, env)
            s == run_app(authenticated, input_password, FALSE)
        IN  /\ chat_history' = r.chat_history
            /\ index' = r.index
            /\ chat_input' = r.chat_input
            /\ calls' = r.calls
            /\ raised' = r.raised
            /\ authenticated' = s.authenticated
            /\ page' = s.page
            /\ ui' = s.ui
            /\ op' = [name |-> "chat", arg |-> typed, env |-> env]
    /\ runs' = runs + 1
    /\ prev' = Snapshot
    /\ UNCHANGED input_password
    /\ UNCHANGED chunkVars

\* the user presses "Process file": the script reruns with the button pressed
ProcessFile ==
    /\ page = "main"
    /\ runs < MaxRuns
    /\ \E upload \in Uploads :
        \E fail_at \in 0..(2 * Len(parse_file(upload.file))) :
            LET s == run_app(authenticated, input_password, FALSE)
                r == IF s.page = "main"
                     THEN process_file(index, upload.file, upload.doc_name, fail_at)
                     ELSE [index |-> index, calls |-> <<>>, raised |-> FALSE,
                           ui |-> s.ui]
            IN  /\ index' = r.index
                /\ calls' = r.calls
                /\ raised' = r.raised
                /\ ui' = r.ui
                /\ authenticated' = s.authenticated
                /\ page' = s.page
                /\ op' = [name |-> "upload",
                          arg |-> upload,
                          env |-> [fail_at |-> fail_at]]
    /\ runs' = runs + 1
    /\ prev' = Snapshot
    /\ UNCHANGED <<input_password, chat_history, chat_input>>
    /\ UNCHANGED chunkVars

Next == EditPassword \/ PressSubmit \/ ChatSubmit \/ ProcessFile

Spec == Init /\ [][Next]_vars

-----------------------------------------------------------------------------
(* chunk_text alone: one call, run to its return.  The loop is sequential   *)
(* code, so it keeps stepping while it can (weak fairness).                 *)

AppIdle ==
    /\ authenticated = FALSE
    /\ input_password = <<>>
    /\ chat_history = <<>>
    /\ chat_input = <<>>
    /\ index = StoredIndex
    /\ page = "gate"
    /\ ui = "none"
    /\ op = [name |-> "start", arg |-> <<>>, env |-> <<>>]
    /\ calls = <<>>
    /\ raised = FALSE
    /\ runs = 0
    /\ prev = [chat_history |-> <<>>, index |-> StoredIndex]

InitChunk ==
    /\ AppIdle
    /\ \E input \in ChunkInputs :
        /\ full_text = input[1]
        /\ chunk_size = input[2]
    /\ start = ChunkLocals.start
    /\ chunks = ChunkLocals.chunks
    /\ windows = ChunkLocals.windows
    /\ pc = "loop"

NextChunk ==
    \/ ChunkIterate /\ UNCHANGED appVars
    \/ ChunkReturn /\ UNCHANGED appVars

SpecChunk == InitChunk /\ [][NextChunk]_vars /\ WF_vars(NextChunk)

-----------------------------------------------------------------------------
(* embed_and_upsert alone: calls on chunk lists drawn from a bounded set    *)

RECURSIVE ListsOfLen(_)
ListsOfLen(n) ==
    IF n = 0 THEN {<<>>}
    ELSE {Append(l, c) : l \in ListsOfLen(n - 1), c \in {<<"a">>, <<>>}}

ChunkLists == UNION {ListsOfLen(n) : n \in 0..MaxChunks}

InitUpsert ==
    /\ AppIdle
    /\ full_text = <<>>
    /\ chunk_size = DefaultChunkSize
    /\ start = 0
    /\ chunks = <<>>
    /\ windows = <<>>
    /\ pc = "idle"

\* one call embed_and_upsert(chunks, metadata_prefix) on the index as it is
UpsertCall ==
    /\ runs < MaxRuns
    /\ \E chunk_list \in ChunkLists, metadata_prefix \in {<<"k", "b">>} :
        \E fail_at \in 0..(2 * Len(chunk_list)) :
            LET r == embed_and_upsert(index, chunk_list, metadata_prefix, fail_at)
            IN  /\ index' = r.index
                /\ calls' = r.calls
                /\ raised' = r.raised
                /\ op' = [name |-> "embed_and_upsert",
                          arg |-> [chunks |-> chunk_list,
                                   metadata_prefix |-> metadata_prefix],
                          env |-> [fail_at |-> fail_at]]
    /\ runs' = runs + 1
    /\ prev' = Snapshot
    /\ UNCHANGED <<authenticated, input_password, chat_history, chat_input, page, ui>>
    /\ UNCHANGED chunkVars

NextUpsert == UpsertCall

SpecUpsert == InitUpsert /\ [][NextUpsert]_vars

-----------------------------------------------------------------------------
(* Properties.  op, calls, raised and prev describe the latest run: what    *)
(* the user did, the hosted calls it made in order, whether an exception    *)
(* escaped it, and chat_history and index as they were before it.           *)

IsBlank(s) == \A i \in 1..Len(s) : s[i] \in Whitespace

Last(s) == s[Len(s)]

IsPrefix(p, s) == Len(p) <= Len(s) /\ SubSeq(s, 1, Len(p)) = p

IsSuffix(p, s) == Len(p) <= Len(s) /\ SubSeq(s, Len(s) - Len(p) + 1, Len(s)) = p

\* the first ten characters are "please add" in any case
StartsWithPleaseAdd(text) ==
    Len(text) >= 10 /\ lower(SubSeq(text, 1, 10)) = please_add

CeilDiv(n, s) == (n + s - 1) \div s

\* the i-th window of size s of a text
SourceWindow(text, s, i) == SubSeq(text, (i - 1) * s + 1, Min(i * s, Len(text)))

\* c is w without its leading and trailing whitespace
IsTrimOf(c, w) ==
    \E a \in 0..Len(w) :
        /\ \A k \in 1..a : w[k] \in Whitespace
        /\ \E b \in 0..(Len(w) - a) :
            /\ \A k \in (Len(w) - b + 1)..Len(w) : w[k] \in Whitespace
            /\ c = SubSeq(w, a + 1, Len(w) - b)
            /\ c # <<>> => c[1] \notin Whitespace /\ c[Len(c)] \notin Whitespace

\* C1: the main page is rendered, handle_user_input and the upload flow run
\* and hosted services are called only when authenticated is True;
\* authenticated starts False, becomes True only in a run of the gate where
\* Submit is pressed and the stripped password equals app_password, and is
\* never set back to False.
C1_AuthenticatedGate ==
    /\ authenticated = FALSE
    /\ [](page = "main" => authenticated)
    /\ [][(op'.name \in {"chat", "upload"} \/ calls' # <<>>) => authenticated]_vars
    /\ [][(~authenticated /\ authenticated') =>
            /\ op'.name = "submit"
            /\ page = "gate"
            /\ strip(input_password) = app_password]_vars
    /\ [][authenticated => authenticated']_vars

\* a chat run that called hosted services, in a session that got in with a
\* password typed with surrounding whitespace
C1_Witness ==
    /\ authenticated
    /\ page = "main"
    /\ op.name = "chat"
    /\ calls # <<>>
    /\ input_password = <<" ", "p", "w", "\n">>

\* C2: a hosted call that fails while a chat submission is handled does not
\* escape handle_user_input: the run ends with an assistant turn carrying
\* the error appended to chat_history.
C2_HostedErrorsSurfaced ==
    (op.name = "chat" /\ \E i \in 1..Len(calls) : ~calls[i].ok) =>
        /\ ~raised
        /\ Len(chat_history) = Len(prev.chat_history) + 2
        /\ Last(chat_history).role = "assistant"
        /\ \E err \in Errors : IsSuffix(err, Last(chat_history).content)

\* C3 as stated: with window 1,500 the window of each later chunk starts 200
\* characters before the end of the window of the chunk before it.
C3_Overlap200 ==
    (pc = "done" /\ chunk_size = DefaultChunkSize) =>
        \A i \in 1..(Len(windows) - 1) : windows[i + 1][1] = windows[i][2] - 200

\* C3 as amended: successive windows do not overlap: the first starts at 0,
\* each is chunk_size wide, and each later one starts where the one before
\* it ends.
C3_WindowsAbut ==
    /\ \A i \in 1..Len(windows) : windows[i][2] = windows[i][1] + chunk_size
    /\ Len(windows) >= 1 => windows[1][1] = 0
    /\ \A i \in 1..(Len(windows) - 1) : windows[i + 1][1] = windows[i][2]

\* 3,200 characters with window 1,500: windows at 0, 1500 and 3000
C3_Witness ==
    /\ pc = "done"
    /\ Len(full_text) = 3200
    /\ chunk_size = DefaultChunkSize
    /\ windows = << <<0, 1500>>, <<1500, 3000>>, <<3000, 4500>> >>

\* C4: for a text of length n and chunk_size s >= 1, chunk_text terminates
\* and returns ceil(n / s) chunks in source order, each its source window
\* without leading and trailing whitespace.
C4_ChunkCount ==
    /\ [](pc = "done" =>
            /\ Len(chunks) = CeilDiv(Len(full_text), chunk_size)
            /\ \A i \in 1..Len(chunks) :
                  IsTrimOf(chunks[i], SourceWindow(full_text, chunk_size, i))
            /\ chunks = chunk_text(full_text, chunk_size))
    /\ <>(pc = "done")

\* 3,200 characters with window 1,500: three chunks, the first two trimmed
C4_Witness ==
    /\ pc = "done"
    /\ Len(full_text) = 3200
    /\ chunk_size = DefaultChunkSize
    /\ Len(chunks) = 3
    /\ Len(chunks[1]) = 1499
    /\ Len(chunks[2]) = 1499

\* C5: a non-empty submission that is no "please add" appends the user turn
\* (it is in chat_history whatever the hosted calls do), then embeds the
\* query, then queries the index with top_k = 3, then calls the completion
\* model, once in every run that returns; the messages are one system
\* message holding the stored texts of the matches joined in match order,
\* then the whole chat_history, the submitted user turn last.
C5_RetrieveThenComplete ==
    (op.name = "chat" /\ ~IsBlank(op.arg) /\ ~StartsWithPleaseAdd(strip(op.arg))) =>
        LET user_text == strip(op.arg)
            asked == Append(prev.chat_history, Turn("user", user_text))
            matches == SubSeq(op.env.ranking, 1, Min(3, Len(op.env.ranking)))
            stored == [i \in 1..Len(matches) |->
                          IF "original_text" \in DOMAIN matches[i].metadata
                          THEN matches[i].metadata.original_text ELSE <<>>]
            system == Turn("system",
                           SystemPromptHead \o join(<<"\n">>, stored) \o SystemPromptTail)
        IN  /\ IsPrefix(asked, chat_history)
            /\ Len(calls) \in 1..3
            /\ calls[1].svc = "embed"
            /\ calls[1].arg = user_text
            /\ Len(calls) >= 2 =>
                  /\ calls[1].ok
                  /\ calls[2].svc = "query"
                  /\ calls[2].arg.top_k = 3
                  /\ calls[2].arg.vector = Embedding(user_text)
            /\ Len(calls) = 3 =>
                  /\ calls[2].ok
                  /\ calls[3].svc = "chat"
                  /\ calls[3].arg = <<system>> \o asked
                  /\ Last(calls[3].arg) = Turn("user", user_text)
            /\ raised <=> (~calls[1].ok \/ (Len(calls) >= 2 /\ ~calls[2].ok))
            /\ ~raised => Len(calls) = 3

\* an answered question, asked when the index held more than three vectors
\* and ranked them in another order than they were stored in
C5_Witness ==
    /\ op.name = "chat"
    /\ op.arg = <<" ", "h", "i", " ">>
    /\ ~raised
    /\ Len(calls) = 3
    /\ calls[3].ok
    /\ Len(op.env.ranking) > 3
    /\ op.env.ranking[1].id = 4

\* C6: chat_history is append-only, strictly alternates user, assistant from
\* a user turn on, never ends with an unanswered user turn, and every run of
\* handle_user_input on a non-empty input appends one user turn and one
\* assistant turn.
C6_Alternation ==
    /\ IsPrefix(prev.chat_history, chat_history)
    /\ Len(chat_history) % 2 = 0
    /\ \A i \in 1..Len(chat_history) :
          chat_history[i].role = IF i % 2 = 1 THEN "user" ELSE "assistant"
    /\ (op.name = "chat" /\ ~IsBlank(op.arg)) =>
          Len(chat_history) = Len(prev.chat_history) + 2

\* C7: a submission whose stripped text starts, in any case, with "please
\* add" never calls the index query or the completion model; the run embeds
\* the text after the first 10 characters, stripped, and, when the embedding
\* and the upsert return, has stored one vector with that original_text and
\* doc_id "manual_add" and appended "Added to knowledge base: <text>".
C7_PleaseAdd ==
    (op.name = "chat" /\ StartsWithPleaseAdd(strip(op.arg))) =>
        LET user_text == strip(op.arg)
            new_data == strip(SubSeq(user_text, 11, Len(user_text)))
            asked == Append(prev.chat_history, Turn("user", user_text))
            meta == [original_text |-> new_data, doc_id |-> manual_add]
        IN  /\ \A i \in 1..Len(calls) : calls[i].svc \notin {"query", "chat"}
            /\ Len(calls) \in 1..2
            /\ calls[1].svc = "embed"
            /\ calls[1].arg = new_data
            /\ Len(calls) = 2 =>
                  /\ calls[1].ok
                  /\ calls[2].svc = "upsert"
                  /\ calls[2].arg.metadata = meta
            /\ ~raised =>
                  /\ Len(calls) = 2
                  /\ calls[2].ok
                  /\ Len(index) = Len(prev.index) + 1
                  /\ IsPrefix(prev.index, index)
                  /\ Last(index).metadata = meta
                  /\ chat_history =
                        Append(asked, Turn("assistant", AddedPrefix \o new_data))
            /\ raised => (index = prev.index /\ chat_history = asked)

\* "Please address" stored as "ress"
C7_Witness ==
    /\ op.name = "chat"
    /\ op.arg = <<"P", "l", "e", "a", "s", "e", " ", "a", "d", "d", "r", "e", "s", "s">>
    /\ ~raised
    /\ Last(index).metadata.original_text = <<"r", "e", "s", "s">>
    /\ Last(chat_history).content = AddedPrefix \o <<"r", "e", "s", "s">>

\* C8: embed_and_upsert embeds and upserts the chunks one at a time in list
\* order, each call made at most once; when all calls return the index has
\* gained one vector per chunk; when the embedding or the upsert of chunk k
\* raises, the vectors of chunks 1..k-1 stay stored, chunks k..n are not
\* stored, and the exception reaches the caller.
C8_EmbedAndUpsert ==
    op.name = "embed_and_upsert" =>
        LET cl == op.arg.chunks
            n == Len(cl)
            base == Len(prev.index)
            meta(i) == [original_text |-> cl[i], doc_id |-> op.arg.metadata_prefix]
            k == (Len(calls) + 1) \div 2
        IN  /\ Len(calls) <= 2 * n
            /\ \A j \in 1..Len(calls) :
                  /\ j % 2 = 1 =>
                        (calls[j].svc = "embed" /\ calls[j].arg = cl[(j + 1) \div 2])
                  /\ j % 2 = 0 =>
                        (calls[j].svc = "upsert" /\ calls[j].arg.metadata = meta(j \div 2))
                  /\ j < Len(calls) => calls[j].ok
            /\ IsPrefix(prev.index, index)
            /\ \A i, j \in 1..Len(index) : index[i].id = index[j].id => i = j
            /\ ~raised =>
                  /\ Len(calls) = 2 * n
                  /\ \A j \in 1..Len(calls) : calls[j].ok
                  /\ Len(index) = base + n
                  /\ \A i \in 1..n : index[base + i].metadata = meta(i)
            /\ raised =>
                  /\ Len(calls) >= 1
                  /\ ~Last(calls).ok
                  /\ Len(index) = base + k - 1
                  /\ \A i \in 1..(k - 1) : index[base + i].metadata = meta(i)

\* a call on two chunks whose second chunk failed, on an index that an
\* earlier call had added to
C8_Witness ==
    /\ op.name = "embed_and_upsert"
    /\ raised
    /\ Len(op.arg.chunks) = 2
    /\ Len(calls) \in {3, 4}
    /\ Len(prev.index) > Len(StoredIndex)
    /\ Len(index) = Len(prev.index) + 1

\* C9: on an empty or whitespace-only input handle_user_input changes
\* neither chat_history nor the index and calls no hosted service; every
\* other run that returns normally ends with chat_input reset to "".
C9_BlankInput ==
    op.name = "chat" =>
        /\ IsBlank(op.arg) =>
              /\ chat_history = prev.chat_history
              /\ index = prev.index
              /\ calls = <<>>
              /\ ~raised
        /\ (~IsBlank(op.arg) /\ ~raised) => chat_input = <<>>

\* whitespace committed after an earlier exchange
C9_Witness ==
    /\ op.name = "chat"
    /\ op.arg = <<" ", "\n">>
    /\ chat_history # <<>>
    /\ chat_history = prev.chat_history

\* C10: "Process file" reports success only after every chunk was embedded
\* and upserted, reports "Could not parse file" with nothing embedded or
\* upserted exactly when parse_file returns no chunks, and every chunk the
\* upload flow sends to the embedding service is a non-empty string.
C10_UploadReport ==
    op.name = "upload" =>
        LET chunk_list == parse_file(op.arg.file)
        IN  /\ ui = "upload_success" =>
                  /\ Len(calls) = 2 * Len(chunk_list)
                  /\ \A j \in 1..Len(calls) : calls[j].ok
                  /\ Len(index) = Len(prev.index) + Len(chunk_list)
            /\ ui = "parse_error" <=> chunk_list = <<>>
            /\ ui = "parse_error" => (calls = <<>> /\ index = prev.index)
            /\ \A j \in 1..Len(calls) :
                  calls[j].svc = "embed" => calls[j].arg # <<>>

=============================================================================
